---- MODULE Spec2Model ----
(***************************************************************************)
(* Model of tdw_physics.rigidbodies_dataset: the RigidbodiesDataset        *)
(* episode recorder and the PHYSICS_INFO registry.                         *)
(*                                                                         *)
(* Numbers: the physics scalars are floats in the source.  np.append of a  *)
(* Python float to a float32 array yields a float64 array, so a value is   *)
(* stored as passed; the model uses small integers for them.               *)
(* Python's None is modelled by None (0); object ids are >= 1.             *)
(***************************************************************************)
EXTENDS Integers, Sequences, FiniteSets, TLC

VARIABLES
    object_ids,         \* TransformsDataset.object_ids (base class)
    scales,             \* TransformsDataset.scales (base class)
    colors,             \* TransformsDataset.colors (base class)
    masses,             \* self.masses
    static_frictions,   \* self.static_frictions
    dynamic_frictions,  \* self.dynamic_frictions
    bouncinesses,       \* self.bouncinesses
    physics_info,       \* self.physics_info, an insertion-ordered dict
    tr,                 \* the transforms dict the base frame writer returns
    resp,               \* the message list handed to _write_frame
    call,               \* the last call made on the recorder, with its arguments
    ret                 \* what that call returned, or the error it raised

vars == <<object_ids, scales, colors, masses, static_frictions, dynamic_frictions,
          bouncinesses, physics_info, tr, resp, call, ret>>

-----------------------------------------------------------------------------
(* Bounds of the model *)

MaxObjects == 2     \* objects added per episode

None == 0
Ids == {1, 2}       \* object ids, passed in or drawn by get_unique_id()

(* Inputs of add_physics_object *)
MassValues == {3, 4}
DynamicFrictionValues == {1}
StaticFrictionValues == {2}
BouncinessValues == {0}
Positions == {"p0"}
Rotations == {"r0"}
DirectRecords == {[name |-> "cube", library |-> "lib1"]}
ColorArgs == {<<>>, <<1, 0, 0>>}       \* <<>> is color=None
RandomColors == {<<0, 1, 0>>}
ScaleValues == {2}
MassThresholds == {3}

-----------------------------------------------------------------------------
(* Python containers *)

Range(s) == {s[i] : i \in 1..Len(s)}

DictHas(d, k) == \E i \in 1..Len(d) : d[i].key = k

DictGet(d, k) == d[CHOOSE i \in 1..Len(d) : d[i].key = k].value

\* d[k] = v on an insertion-ordered dict: an existing key keeps its place
DictSet(d, k, v) ==
    IF DictHas(d, k)
    THEN [i \in 1..Len(d) |-> IF d[i].key = k THEN [key |-> k, value |-> v] ELSE d[i]]
    ELSE Append(d, [key |-> k, value |-> v])

Ok(v) == [kind |-> "ok", value |-> v]
Raised(e) == [kind |-> "error", value |-> e]

-----------------------------------------------------------------------------
(* The physics-info registry *)

PhysicsInfo(record, mass, dynamic_friction, static_friction, bounciness) ==
    [record |-> record, mass |-> mass, dynamic_friction |-> dynamic_friction,
     static_friction |-> static_friction, bounciness |-> bounciness]

\* data/physics_info.json: the entries the registry is loaded from
PhysicsInfoJson ==
    [n \in {"chair", "ball"} |->
        IF n = "chair"
        THEN [library |-> "lib0", name |-> "chair_01", mass |-> 5,
              dynamic_friction |-> 3, static_friction |-> 4, bounciness |-> 2]
        ELSE [library |-> "lib0", name |-> "ball_01", mass |-> 2,
              dynamic_friction |-> 6, static_friction |-> 7, bounciness |-> 8]]

\* MODEL_LIBRARIES[library].get_record(name)
GetRecord(library, name) == [name |-> name, library |-> library]

GetDefaultPhysicsInfo(data) ==
    [key \in DOMAIN data |->
        PhysicsInfo(GetRecord(data[key].library, data[key].name), data[key].mass,
                    data[key].dynamic_friction, data[key].static_friction,
                    data[key].bounciness)]

PHYSICS_INFO == GetDefaultPhysicsInfo(PhysicsInfoJson)

ModelNames == DOMAIN PhysicsInfoJson

-----------------------------------------------------------------------------
(* Object creation *)

\* TransformsDataset.add_transforms_object: tracks the id, returns add-object
AddObjectCommand(o_id, record, position, rotation) ==
    [type |-> "add_object", name |-> record.name, position |-> position,
     rotation |-> rotation, id |-> o_id]

SetMassCommand(o_id, mass) == [type |-> "set_mass", id |-> o_id, mass |-> mass]

SetPhysicMaterialCommand(o_id, dynamic_friction, static_friction, bounciness) ==
    [type |-> "set_physic_material", id |-> o_id,
     dynamic_friction |-> dynamic_friction, static_friction |-> static_friction,
     bounciness |-> bounciness]

\* the return statement of add_physics_object
PhysicsObjectCommands_NoMass(o_id, record, position, rotation, info) ==
    << AddObjectCommand(o_id, record, position, rotation),
       SetPhysicMaterialCommand(o_id, info.dynamic_friction, info.static_friction,
                                info.bounciness) >>

PhysicsObjectCommands(o_id, record, position, rotation, info) ==
    << AddObjectCommand(o_id, record, position, rotation),
       SetMassCommand(o_id, info.mass),
       SetPhysicMaterialCommand(o_id, info.dynamic_friction, info.static_friction,
                                info.bounciness) >>

\* np.append(arr, value) on a one-dimensional array
NpAppendValue_Overwrite(arr, value) == <<value>>

NpAppendValue(arr, value) == Append(arr, value)

\* The body of add_physics_object, o_id resolved: `uid` is what get_unique_id()
\* returns when o_id is None.
DoAddPhysicsObject(o_id_arg, uid, record, position, rotation, mass, dynamic_friction, static_friction, bounciness) ==
    LET o_id == IF o_id_arg = None THEN uid ELSE o_id_arg
        info == PhysicsInfo(record, mass, dynamic_friction, static_friction, bounciness)
    IN  \* add_transforms_object tracks the id
        /\ object_ids' = Append(object_ids, o_id)
        /\ masses' = NpAppendValue(masses, mass)
        /\ dynamic_frictions' = NpAppendValue(dynamic_frictions, dynamic_friction)
        /\ static_frictions' = NpAppendValue(static_frictions, static_friction)
        /\ bouncinesses' = NpAppendValue(bouncinesses, bounciness)
        /\ physics_info' = DictSet(physics_info, o_id, info)
        /\ ret' = Ok(PhysicsObjectCommands(o_id, record, position, rotation, info))
        /\ UNCHANGED <<scales, colors, tr, resp>>

AddPhysicsObject ==
    /\ Len(object_ids) < MaxObjects
    /\ \E o_id \in Ids \cup {None}, uid \in Ids, record \in DirectRecords,
          position \in Positions, rotation \in Rotations, mass \in MassValues,
          dynamic_friction \in DynamicFrictionValues,
          static_friction \in StaticFrictionValues, bounciness \in BouncinessValues :
          /\ call' = [op |-> "add_physics_object", o_id |-> o_id, record |-> record,
                      position |-> position, rotation |-> rotation, mass |-> mass,
                      dynamic_friction |-> dynamic_friction,
                      static_friction |-> static_friction, bounciness |-> bounciness]
          /\ DoAddPhysicsObject(o_id, uid, record, position, rotation, mass,
                                dynamic_friction, static_friction, bounciness)

\* the arguments add_physics_object_default resolves from the registry entry
DefaultScalars_SwapFriction(info) ==
    [mass |-> info.mass, dynamic_friction |-> info.static_friction,
     static_friction |-> info.dynamic_friction, bounciness |-> info.bounciness]

DefaultScalars(info) ==
    [mass |-> info.mass, dynamic_friction |-> info.dynamic_friction,
     static_friction |-> info.static_friction, bounciness |-> info.bounciness]

AddPhysicsObjectDefault ==
    /\ Len(object_ids) < MaxObjects
    /\ \E name \in ModelNames \cup {"unregistered"}, o_id \in Ids \cup {None},
          uid \in Ids, position \in Positions, rotation \in Rotations :
          /\ call' = [op |-> "add_physics_object_default", name |-> name,
                      o_id |-> o_id, position |-> position, rotation |-> rotation]
          /\ IF name \in DOMAIN PHYSICS_INFO
             THEN LET info == PHYSICS_INFO[name]
                      s == DefaultScalars(info)
                  IN  DoAddPhysicsObject(o_id, uid, info.record, position, rotation,
                                         s.mass, s.dynamic_friction, s.static_friction,
                                         s.bounciness)
             ELSE /\ ret' = Raised("KeyError")
                  /\ UNCHANGED <<object_ids, scales, colors, masses, static_frictions,
                                 dynamic_frictions, bouncinesses, physics_info, tr, resp>>

RandomPrimitive ==
    /\ Len(scales) < MaxObjects
    /\ \E obj_record \in DirectRecords, uid \in Ids, scale \in ScaleValues,
          color \in ColorArgs, random_color \in RandomColors :
          LET obj_data == [id |-> uid, scale |-> scale,
                           color |-> IF color = <<>> THEN random_color ELSE color,
                           name |-> obj_record.name]
          IN  /\ call' = [op |-> "random_primitive", color |-> color]
              /\ scales' = NpAppendValue(scales, obj_data.scale)
              /\ colors' = Append(colors, obj_data.color)
              /\ ret' = Ok(<<obj_record, obj_data>>)
              /\ UNCHANGED <<object_ids, masses, static_frictions, dynamic_frictions,
                             bouncinesses, physics_info, tr, resp>>

ClearStaticData ==
    /\ call' = [op |-> "clear_static_data"]
    \* super().clear_static_data()
    /\ object_ids' = <<>>
    /\ scales' = <<>>
    /\ colors' = <<>>
    /\ masses' = <<>>
    /\ static_frictions' = <<>>
    /\ dynamic_frictions' = <<>>
    /\ bouncinesses' = <<>>
    /\ ret' = Ok(None)
    /\ UNCHANGED <<physics_info, tr, resp>>

-----------------------------------------------------------------------------
(* Selection by mass *)

RECURSIVE FilterKeys(_, _, _)
FilterKeys(d, i, mass) ==
    IF i > Len(d) THEN <<>>
    ELSE (IF d[i].value.mass < mass THEN <<d[i].key>> ELSE <<>>)
         \o FilterKeys(d, i + 1, mass)

GetObjectsByMassOf(d, mass) == FilterKeys(d, 1, mass)

GetObjectsByMass ==
    \E mass \in MassThresholds :
        /\ call' = [op |-> "get_objects_by_mass", mass |-> mass]
        /\ ret' = Ok(GetObjectsByMassOf(physics_info, mass))
        /\ UNCHANGED <<object_ids, scales, colors, masses, static_frictions,
                       dynamic_frictions, bouncinesses, physics_info, tr, resp>>

-----------------------------------------------------------------------------
(* The recorder over an episode *)

Init ==
    /\ object_ids = <<>>
    /\ scales = <<>>
    /\ colors = <<>>
    /\ masses = <<>>
    /\ static_frictions = <<>>
    /\ dynamic_frictions = <<>>
    /\ bouncinesses = <<>>
    /\ physics_info = <<>>
    /\ tr = <<>>
    /\ resp = <<>>
    /\ call = [op |-> "__init__"]
    /\ ret = Ok(None)

Next ==
    \/ AddPhysicsObject
    \/ AddPhysicsObjectDefault
    \/ RandomPrimitive
    \/ ClearStaticData
    \/ GetObjectsByMass

Spec == Init /\ [][Next]_vars

-----------------------------------------------------------------------------
(* Force-application scheduling: get_falling_commands *)

MaxLaunch == 8          \* "if len(small_ids) < 8 else 8"
LaunchSpread == 3       \* "max_num_objects - 3"
WaitFrom == 10          \* range(10, 30)
WaitTo == 30

\* random.shuffle(small_ids): every order when the list is short, and for a
\* longer list the rotations of the list and of its reverse.
MaxFullShuffle == 3

Reverse(s) == [i \in 1..Len(s) |-> s[Len(s) + 1 - i]]
Rotate(s, k) == [i \in 1..Len(s) |-> s[((i - 1 + k) % Len(s)) + 1]]

ShuffleOutcomes(s) ==
    IF Len(s) = 0 THEN {s}
    ELSE IF Len(s) <= MaxFullShuffle
    THEN {[i \in 1..Len(s) |-> s[p[i]]] : p \in Permutations(1..Len(s))}
    ELSE {Rotate(s, k) : k \in 0..(Len(s) - 1)}
         \cup {Rotate(Reverse(s), k) : k \in 0..(Len(s) - 1)}

MaxNumObjects_NoClamp(n) == n

MaxNumObjects(n) == IF n < MaxLaunch THEN n ELSE MaxLaunch

MinNumObjects(n) ==
    LET m == MaxNumObjects(n) - LaunchSpread
    IN  IF m <= 0 THEN 1 ELSE m

\* "for j in range(10, 30): per_frame_commands.append([])"
WaitFrames == [j \in 1..(WaitTo - WaitFrom) |-> <<>>]

\* The force is force_dir (unit length) times random.uniform(mass * 2, mass * 4):
\* the command carries the interval its magnitude is drawn from.
ApplyForceCommand(o_id, d) ==
    [type |-> "apply_force_to_object",
     force |-> [min_force |-> DictGet(d, o_id).mass * 2,
                max_force |-> DictGet(d, o_id).mass * 4],
     id |-> o_id]

\* what small_ids.pop(0) leaves in the list
PopFirst_Keep(s) == s

PopFirst(s) == Tail(s)

\* the loop "for i in range(count)"
RECURSIVE LaunchFrames(_, _, _)
LaunchFrames(small_ids, count, d) ==
    IF count = 0 THEN <<>>
    ELSE LET o_id == Head(small_ids)
         IN  << <<ApplyForceCommand(o_id, d)>> >> \o WaitFrames
             \o LaunchFrames(PopFirst(small_ids), count - 1, d)

GetFallingCommands ==
    \E mass \in MassThresholds :
      \E small_ids \in ShuffleOutcomes(GetObjectsByMassOf(physics_info, mass)) :
        LET max_num_objects == MaxNumObjects(Len(small_ids))
            min_num_objects == MinNumObjects(Len(small_ids))
        IN  /\ call' = [op |-> "get_falling_commands", mass |-> mass]
            /\ IF min_num_objects > max_num_objects
               THEN ret' = Raised("ValueError")        \* random.randint(1, 0)
               ELSE \E count \in min_num_objects..max_num_objects :
                      ret' = Ok(LaunchFrames(small_ids, count, physics_info))
            /\ UNCHANGED <<object_ids, scales, colors, masses, static_frictions,
                           dynamic_frictions, bouncinesses, physics_info, tr, resp>>

\* An episode in which n objects, ids 1..n, were added with add_physics_object:
\* all light, every second one at the default threshold, or all heavy.
MaxFallObjects == 9
FallMassPatterns == {"light", "mixed", "heavy"}

FallMass(pattern, i) ==
    CASE pattern = "light" -> 2
      [] pattern = "mixed" -> IF i % 2 = 1 THEN 1 ELSE 3
      [] OTHER -> 4

InitFall ==
    \E n \in 0..MaxFallObjects, pattern \in FallMassPatterns :
        /\ object_ids = [i \in 1..n |-> i]
        /\ scales = <<>>
        /\ colors = <<>>
        /\ masses = [i \in 1..n |-> FallMass(pattern, i)]
        /\ static_frictions = [i \in 1..n |-> 2]
        /\ dynamic_frictions = [i \in 1..n |-> 1]
        /\ bouncinesses = [i \in 1..n |-> 0]
        /\ physics_info = [i \in 1..n |->
                [key |-> i,
                 value |-> PhysicsInfo([name |-> "cube", library |-> "lib1"],
                                       FallMass(pattern, i), 1, 2, 0)]]
        /\ tr = <<>>
        /\ resp = <<>>
        /\ call = [op |-> "__init__"]
        /\ ret = Ok(None)

NextFall == GetFallingCommands

SpecFall == InitFall /\ [][NextFall]_vars

-----------------------------------------------------------------------------
(* Frame data extraction: _write_frame *)

AbyssY == -1            \* 'tr[...]["pos"][1] >= -1'

\* numpy arrays: a shape and the elements in row-major order
Product(shape) == IF Len(shape) = 0 THEN 1
                  ELSE IF Len(shape) = 1 THEN shape[1]
                  ELSE IF Len(shape) = 2 THEN shape[1] * shape[2]
                  ELSE shape[1] * shape[2] * shape[3]

NpEmpty(shape) == [shape |-> shape, data |-> <<>>]      \* used with a 0 dimension

\* np.append(arr, values) with no axis: both are flattened
NpAppend(arr, values) ==
    [shape |-> <<Len(arr.data) + Len(values)>>, data |-> arr.data \o values]

\* arr.reshape((-1,) + tail)
CanReshape(arr, tail) == Len(arr.data) % Product(tail) = 0

Reshape(arr, tail) ==
    [shape |-> <<Len(arr.data) \div Product(tail)>> \o tail, data |-> arr.data]

\* an array written without a reshape keeps the shape it has
AsWritten(arr) == arr

Vector3 == <<0, 0, 0>>      \* a float triple; its values play no part here

\* Output messages of one frame
MaxMsgs == 2                \* messages of a frame before the closing one
EngineIds == {1, 2}         \* the objects the engine may report
ContactCounts == {0, 1, 2}
YValues == {-2, -1, 0}
Uninitialized == {<<"uninitialized", 0>>, <<"uninitialized", 1>>}

\* a Rigidbodies message: the reported ids in ascending order, each asleep or not
RECURSIVE BodiesOf(_, _)
BodiesOf(f, i) ==
    IF i \notin EngineIds THEN <<>>
    ELSE (IF f[i] = "absent" THEN <<>>
          ELSE <<[id |-> i, sleeping |-> (f[i] = "asleep")]>>) \o BodiesOf(f, i + 1)

RigidbodiesMessages ==
    {[kind |-> "rigi", bodies |-> BodiesOf(f, 1)] :
        f \in [EngineIds -> {"absent", "asleep", "awake"}]}

CollisionMessages ==
    {[kind |-> "coll", collider_id |-> 1, collidee_id |-> 2, num_contacts |-> k] :
        k \in ContactCounts}

EnvironmentCollisionMessages ==
    {[kind |-> "enco", object_id |-> 1, num_contacts |-> k] : k \in ContactCounts}

OtherMessages == {[kind |-> "tran"]}

FrameMessage == [kind |-> "fram"]       \* the last element of every resp

Messages == RigidbodiesMessages \cup CollisionMessages
            \cup EnvironmentCollisionMessages \cup OtherMessages

RespLists == {m \o <<FrameMessage>> : m \in UNION {[1..k -> Messages] : k \in 0..MaxMsgs}}

\* resp[:-1]
Scanned(r) == IF Len(r) = 0 THEN r ELSE SubSeq(r, 1, Len(r) - 1)

\* the loop building ri_dict and checking the sleeping flags
RiDict(bodies) ==
    [o \in {bodies[i].id : i \in 1..Len(bodies)} |->
        [vel |-> <<"vel", o>>, ang |-> <<"ang", o>>]]

SleepLookupFails(bodies, t) ==
    \E i \in 1..Len(bodies) : ~bodies[i].sleeping /\ bodies[i].id \notin DOMAIN t

AnyAwake(bodies, t) ==
    \E i \in 1..Len(bodies) :
        /\ ~bodies[i].sleeping
        /\ bodies[i].id \in DOMAIN t
        /\ t[bodies[i].id].pos[2] >= AbyssY

\* "for o_id, i in zip(self.object_ids, range(num_objects))"
RemapFails_Never(ids, ri_dict) == FALSE

RemapFails(ids, ri_dict) == \E i \in 1..Len(ids) : ids[i] \notin DOMAIN ri_dict

Remap(ids, ri_dict, old, field) ==
    [i \in 1..Len(ids) |->
        IF ids[i] \in DOMAIN ri_dict THEN ri_dict[ids[i]][field] ELSE old[i]]

RECURSIVE Contacts(_)
Contacts(n) == IF n = 0 THEN <<>> ELSE Vector3 \o Vector3 \o Contacts(n - 1)

\* one iteration of "for r in resp[:-1]" on the accumulated frame data `a`
ScanMessage(a, r, ids, t) ==
    IF a.error # "" THEN a
    ELSE IF r.kind = "rigi" THEN
        IF SleepLookupFails(r.bodies, t) \/ RemapFails(ids, RiDict(r.bodies))
        THEN [a EXCEPT !.error = "KeyError"]
        ELSE [a EXCEPT
                !.sleeping = a.sleeping /\ ~AnyAwake(r.bodies, t),
                !.velocities = Remap(ids, RiDict(r.bodies), a.velocities, "vel"),
                !.angular_velocities =
                    Remap(ids, RiDict(r.bodies), a.angular_velocities, "ang")]
    ELSE IF r.kind = "coll" THEN
        [a EXCEPT
            !.collision_ids = NpAppend(a.collision_ids, <<r.collider_id, r.collidee_id>>),
            !.collision_relative_velocities =
                NpAppend(a.collision_relative_velocities, Vector3),
            !.collision_contacts = NpAppend(a.collision_contacts, Contacts(r.num_contacts))]
    ELSE IF r.kind = "enco" THEN
        [a EXCEPT
            !.env_collision_ids = NpAppend(a.env_collision_ids, <<r.object_id>>),
            !.env_collision_contacts =
                NpAppend(a.env_collision_contacts, Contacts(r.num_contacts))]
    ELSE a

RECURSIVE ScanFrom(_, _, _, _, _)
ScanFrom(a, r, i, ids, t) ==
    IF i > Len(r) THEN a ELSE ScanFrom(ScanMessage(a, r[i], ids, t), r, i + 1, ids, t)

\* the arrays before the loop; np.empty leaves the velocity rows unset
FrameStart(ids, g) ==
    [sleeping |-> TRUE,
     error |-> "",
     velocities |-> [i \in 1..Len(ids) |-> g],
     angular_velocities |-> [i \in 1..Len(ids) |-> g],
     collision_ids |-> NpEmpty(<<0, 2>>),
     collision_relative_velocities |-> NpEmpty(<<0, 3>>),
     collision_contacts |-> NpEmpty(<<0, 2, 3>>),
     env_collision_ids |-> NpEmpty(<<0, 1>>),
     env_collision_contacts |-> NpEmpty(<<0, 2, 3>>)]

\* the datasets created after the loop and the returned flag
FrameResult(a, ids) ==
    IF a.error # "" THEN Raised(a.error)
    ELSE IF ~(/\ CanReshape(a.collision_ids, <<2>>)
              /\ CanReshape(a.collision_relative_velocities, <<3>>)
              /\ CanReshape(a.collision_contacts, <<2, 3>>)
              /\ CanReshape(a.env_collision_contacts, <<2, 3>>))
    THEN Raised("ValueError")
    ELSE Ok([velocities |-> [shape |-> <<Len(ids), 3>>, rows |-> a.velocities],
             angular_velocities |->
                [shape |-> <<Len(ids), 3>>, rows |-> a.angular_velocities],
             collisions |->
                [object_ids |-> Reshape(a.collision_ids, <<2>>),
                 relative_velocities |-> Reshape(a.collision_relative_velocities, <<3>>),
                 contacts |-> Reshape(a.collision_contacts, <<2, 3>>)],
             env_collisions |->
                [object_ids |-> AsWritten(a.env_collision_ids),
                 contacts |-> Reshape(a.env_collision_contacts, <<2, 3>>)],
             done |-> a.sleeping])

\* _write_frame reads object_ids and the frame's messages and changes no state of
\* the recorder, so each frame is written from the episode's state as set up.
WriteFrame ==
    /\ call.op = "__init__"
    /\ \E r \in RespLists, g \in Uninitialized :
        /\ call' = [op |-> "_write_frame"]
        /\ resp' = r
        /\ ret' = FrameResult(ScanFrom(FrameStart(object_ids, g), Scanned(r), 1,
                                       object_ids, tr), object_ids)
        /\ UNCHANGED <<object_ids, scales, colors, masses, static_frictions,
                       dynamic_frictions, bouncinesses, physics_info, tr>>

\* Episodes tracking some of the engine's objects; the engine reports a transform
\* for every tracked object and possibly for others.
TrackedIdLists ==
    {s \in UNION {[1..k -> EngineIds] : k \in 0..Cardinality(EngineIds)} :
        \A i, j \in 1..Len(s) : i # j => s[i] # s[j]}

InitFrame ==
    \E ids \in TrackedIdLists, D \in SUBSET EngineIds :
        /\ Range(ids) \subseteq D
        /\ object_ids = ids
        /\ tr \in [D -> {[pos |-> <<0, y, 0>>] : y \in YValues}]
        /\ scales = <<>>
        /\ colors = <<>>
        /\ masses = [i \in 1..Len(ids) |-> 3]
        /\ static_frictions = [i \in 1..Len(ids) |-> 2]
        /\ dynamic_frictions = [i \in 1..Len(ids) |-> 1]
        /\ bouncinesses = [i \in 1..Len(ids) |-> 0]
        /\ physics_info = [i \in 1..Len(ids) |->
                [key |-> ids[i],
                 value |-> PhysicsInfo([name |-> "cube", library |-> "lib1"], 3, 1, 2, 0)]]
        /\ resp = <<>>
        /\ call = [op |-> "__init__"]
        /\ ret = Ok(None)

NextFrame == WriteFrame

SpecFrame == InitFrame /\ [][NextFrame]_vars

-----------------------------------------------------------------------------
(* Properties of object creation, checked under Spec *)

\* C1: every add_physics_object call returns exactly three commands, in the order
\* add_object, set_mass, set_physic_material, all with one object id (the o_id
\* passed, when one is passed) and the scalars passed, and appends the mass, the
\* two frictions and the bounciness passed to the end of their static arrays.
C1_AddPhysicsObjectBatch ==
    [][call'.op = "add_physics_object" =>
        /\ ret'.kind = "ok"
        /\ Len(ret'.value) = 3
        /\ ret'.value[1].type = "add_object"
        /\ ret'.value[2] = [type |-> "set_mass", id |-> ret'.value[1].id,
                            mass |-> call'.mass]
        /\ ret'.value[3] = [type |-> "set_physic_material", id |-> ret'.value[1].id,
                            dynamic_friction |-> call'.dynamic_friction,
                            static_friction |-> call'.static_friction,
                            bounciness |-> call'.bounciness]
        /\ (call'.o_id # None => ret'.value[1].id = call'.o_id)
        /\ masses' = Append(masses, call'.mass)
        /\ dynamic_frictions' = Append(dynamic_frictions, call'.dynamic_friction)
        /\ static_frictions' = Append(static_frictions, call'.static_friction)
        /\ bouncinesses' = Append(bouncinesses, call'.bounciness)]_vars

\* a second object added with add_physics_object, its id drawn by get_unique_id()
C1_Witness ==
    /\ call.op = "add_physics_object"
    /\ call.o_id = None
    /\ ret.kind = "ok"
    /\ Len(masses) = 2

\* C5 as stated: the six static sequences (mass, static_friction,
\* dynamic_friction, bounciness, scale, color) all have the length of the list of
\* objects added since the last clear_static_data.
C5_SixArraysSameLength ==
    /\ Len(masses) = Len(object_ids)
    /\ Len(static_frictions) = Len(object_ids)
    /\ Len(dynamic_frictions) = Len(object_ids)
    /\ Len(bouncinesses) = Len(object_ids)
    /\ Len(scales) = Len(object_ids)
    /\ Len(colors) = Len(object_ids)

GrowsByOne(old, new) == Len(new) = Len(old) + 1 /\ SubSeq(new, 1, Len(old)) = old

\* C5, amended: mass, static_friction, dynamic_friction and bounciness have one
\* element per add_physics_object / add_physics_object_default call since the last
\* clear_static_data, scale and color one per random_primitive call; each call
\* appends one element to its own sequences and leaves the others as they are,
\* clear_static_data empties the four physics sequences, and no other call
\* changes any of the six.
C5_AppendOnlyPerCall ==
    [][LET added == /\ call'.op \in {"add_physics_object", "add_physics_object_default"}
                    /\ ret'.kind = "ok"
           primitive == call'.op = "random_primitive"
           cleared == call'.op = "clear_static_data"
       IN  /\ added =>
                /\ GrowsByOne(masses, masses')
                /\ GrowsByOne(static_frictions, static_frictions')
                /\ GrowsByOne(dynamic_frictions, dynamic_frictions')
                /\ GrowsByOne(bouncinesses, bouncinesses')
                /\ UNCHANGED <<scales, colors>>
           /\ primitive =>
                /\ GrowsByOne(scales, scales')
                /\ GrowsByOne(colors, colors')
                /\ UNCHANGED <<masses, static_frictions, dynamic_frictions, bouncinesses>>
           /\ cleared =>
                /\ masses' = <<>>
                /\ static_frictions' = <<>>
                /\ dynamic_frictions' = <<>>
                /\ bouncinesses' = <<>>
           /\ ~(added \/ primitive \/ cleared) =>
                UNCHANGED <<masses, static_frictions, dynamic_frictions, bouncinesses,
                            scales, colors>>
           /\ Len(masses') = Len(static_frictions')
           /\ Len(masses') = Len(dynamic_frictions')
           /\ Len(masses') = Len(bouncinesses')
           /\ Len(scales') = Len(colors')]_vars

\* two objects added and one primitive drawn in one episode
C5_Witness ==
    /\ call.op = "random_primitive"
    /\ Len(masses) = 2
    /\ Len(scales) = 1
    /\ Len(colors) = 1

\* C6: add_physics_object_default(name, position, rotation, o_id) for a registered
\* name returns the batch, and makes the changes to the static arrays and to
\* physics_info, of add_physics_object called with the record, mass,
\* dynamic_friction, static_friction and bounciness of the registry entry.
C6_DefaultEqualsDirect ==
    [][(call'.op = "add_physics_object_default" /\ call'.name \in ModelNames) =>
        /\ ret'.kind = "ok"
        /\ Len(ret'.value) = 3
        /\ LET e == PhysicsInfoJson[call'.name]
               record == GetRecord(e.library, e.name)
               o_id == IF call'.o_id # None THEN call'.o_id ELSE ret'.value[1].id
           IN  /\ ret'.value =
                    << AddObjectCommand(o_id, record, call'.position, call'.rotation),
                       SetMassCommand(o_id, e.mass),
                       SetPhysicMaterialCommand(o_id, e.dynamic_friction,
                                                e.static_friction, e.bounciness) >>
               /\ masses' = Append(masses, e.mass)
               /\ dynamic_frictions' = Append(dynamic_frictions, e.dynamic_friction)
               /\ static_frictions' = Append(static_frictions, e.static_friction)
               /\ bouncinesses' = Append(bouncinesses, e.bounciness)
               /\ physics_info' =
                    DictSet(physics_info, o_id,
                            PhysicsInfo(record, e.mass, e.dynamic_friction,
                                        e.static_friction, e.bounciness))]_vars

\* the chair of the registry added as second object under an explicit id
C6_Witness ==
    /\ call.op = "add_physics_object_default"
    /\ call.name = "chair"
    /\ call.o_id # None
    /\ ret.kind = "ok"
    /\ Len(masses) = 2
    /\ masses[2] = 5

\* C7: physics_info holds entries of objects of the current episode only, and
\* get_objects_by_mass returns no id of an earlier episode.
C7_PhysicsInfoOnlyLiveObjects ==
    /\ \A i \in 1..Len(physics_info) : physics_info[i].key \in Range(object_ids)
    /\ (call.op = "get_objects_by_mass" => Range(ret.value) \subseteq Range(object_ids))

\* C8: get_objects_by_mass(mass) returns exactly the ids of the objects of
\* physics_info whose mass is <= mass.
C8_ObjectsAtOrBelowThreshold ==
    call.op = "get_objects_by_mass" =>
        Range(ret.value) = {physics_info[i].key : i \in
                                {j \in 1..Len(physics_info) :
                                    physics_info[j].value.mass <= call.mass}}

-----------------------------------------------------------------------------
(* Properties of get_falling_commands, checked under SpecFall *)

LaunchFrameIndexes(frames) == {i \in 1..Len(frames) : frames[i] # <<>>}

\* the number of empty lists right after position p
EmptyRunAfter(frames, p) ==
    CHOOSE k \in 0..Len(frames) :
        /\ p + k <= Len(frames)
        /\ \A j \in 1..k : frames[p + j] = <<>>
        /\ (p + k = Len(frames) \/ frames[p + k + 1] # <<>>)

RECURSIVE SumOfRuns(_, _)
SumOfRuns(frames, P) ==
    IF P = {} THEN 0
    ELSE LET p == CHOOSE x \in P : TRUE
         IN  EmptyRunAfter(frames, p) + SumOfRuns(frames, P \ {p})

BelowThreshold ==
    {i \in 1..Len(physics_info) : physics_info[i].value.mass < call.mass}

\* C4: with n >= 1 objects below the threshold, get_falling_commands launches s
\* objects, max(1, min(n, 8) - 3) <= s <= min(n, 8), and returns s lists plus,
\* for each launched object, between 10 and 30 empty lists.
C4_LaunchCountAndLength ==
    (call.op = "get_falling_commands" /\ BelowThreshold # {}) =>
        /\ ret.kind = "ok"
        /\ LET frames == ret.value
               s == Cardinality(LaunchFrameIndexes(frames))
               n == Cardinality(BelowThreshold)
               cap == IF n < 8 THEN n ELSE 8
           IN  /\ 1 <= s
               /\ s <= 8
               /\ s <= cap
               /\ s >= (IF cap - 3 > 1 THEN cap - 3 ELSE 1)
               /\ \A p \in LaunchFrameIndexes(frames) :
                    EmptyRunAfter(frames, p) \in 10..30
               /\ Len(frames) = s + SumOfRuns(frames, LaunchFrameIndexes(frames))

\* eight of nine light objects launched
C4_Witness ==
    /\ call.op = "get_falling_commands"
    /\ Cardinality(BelowThreshold) = 9
    /\ ret.kind = "ok"
    /\ Cardinality(LaunchFrameIndexes(ret.value)) = 8

\* C9: every non-empty list of the returned sequence holds exactly one
\* apply_force_to_object command, no object id is launched twice, a run of 10 to
\* 30 empty lists follows each non-empty list, launches are never on the same or
\* on adjacent frames, and the sequence starts with a launch and ends with an
\* empty list.
C9_StaggeredLaunches ==
    (call.op = "get_falling_commands" /\ ret.kind = "ok") =>
        LET frames == ret.value
            L == LaunchFrameIndexes(frames)
        IN  /\ Len(frames) > 0
            /\ frames[1] # <<>>
            /\ frames[Len(frames)] = <<>>
            /\ \A p \in L : /\ Len(frames[p]) = 1
                            /\ frames[p][1].type = "apply_force_to_object"
                            /\ EmptyRunAfter(frames, p) \in 10..30
            /\ \A p, q \in L : p # q => /\ frames[p][1].id # frames[q][1].id
                                        /\ (p - q > 1 \/ q - p > 1)

\* three launches in one returned sequence
C9_Witness ==
    /\ call.op = "get_falling_commands"
    /\ ret.kind = "ok"
    /\ Cardinality(LaunchFrameIndexes(ret.value)) = 3

-----------------------------------------------------------------------------
(* Properties of _write_frame, checked under SpecFrame *)

ScannedRigidbodies == {i \in 1..(Len(resp) - 1) : resp[i].kind = "rigi"}

ReportedIds(i) == {resp[i].bodies[j].id : j \in 1..Len(resp[i].bodies)}

ReportedAsleep(o) ==
    \E i \in ScannedRigidbodies :
        \E j \in 1..Len(resp[i].bodies) :
            resp[i].bodies[j].id = o /\ resp[i].bodies[j].sleeping

CountKind(kind) == Cardinality({i \in 1..(Len(resp) - 1) : resp[i].kind = kind})

\* C2: the flag _write_frame returns is true exactly when every tracked object
\* with y-position >= -1 was reported asleep in the frame's rigid-body message.
C2_DoneIffAllAsleep ==
    (call.op = "_write_frame" /\ ret.kind = "ok") =>
        (ret.value.done <=>
            \A i \in 1..Len(object_ids) :
                tr[object_ids[i]].pos[2] >= -1 => ReportedAsleep(object_ids[i]))

\* C3: with N object collisions and M environment collisions in the frame, the
\* datasets have the shapes (N,2), (N,3), (k,2,3) and (M,1), (k',2,3).
C3_CollisionShapes ==
    (call.op = "_write_frame" /\ ret.kind = "ok") =>
        LET N == CountKind("coll")
            M == CountKind("enco")
            c == ret.value.collisions
            e == ret.value.env_collisions
        IN  /\ c.object_ids.shape = <<N, 2>>
            /\ c.relative_velocities.shape = <<N, 3>>
            /\ Len(c.contacts.shape) = 3
            /\ SubSeq(c.contacts.shape, 2, 3) = <<2, 3>>
            /\ e.object_ids.shape = <<M, 1>>
            /\ Len(e.contacts.shape) = 3
            /\ SubSeq(e.contacts.shape, 2, 3) = <<2, 3>>

\* C10 as stated: a rigid-body message reporting a number of objects other than
\* the number of tracked objects makes _write_frame fail.
C10_MismatchedCountFails ==
    (call.op = "_write_frame"
     /\ \E i \in ScannedRigidbodies : Len(resp[i].bodies) # Len(object_ids))
        => ret.kind = "error"

\* C10, amended: a rigid-body message that omits a tracked object id makes
\* _write_frame fail with an error instead of returning a frame result.
C10_MissingTrackedIdFails ==
    (call.op = "_write_frame"
     /\ \E i \in ScannedRigidbodies : ~(Range(object_ids) \subseteq ReportedIds(i)))
        => ret.kind = "error"

\* two tracked objects, the frame's rigid-body message reports one of them, asleep
C10_Witness ==
    /\ call.op = "_write_frame"
    /\ Len(object_ids) = 2
    /\ \E i \in ScannedRigidbodies :
            /\ Len(resp[i].bodies) = 1
            /\ resp[i].bodies[1].id \in Range(object_ids)
            /\ resp[i].bodies[1].sleeping
    /\ ret = Raised("KeyError")

====
